---- MODULE Spec2Model ----
(***************************************************************************)
(* Model of the hierarchical 2D coordinate systems of the repository:      *)
(* System (frame) trees, Coordinates (Point / Vector) and the conversions  *)
(* between systems (src/src/relative/system.py, coordinate.py).            *)
(*                                                                         *)
(* Numbers: numpy float64 values are modelled exactly, as integers over a   *)
(* common denominator, so that matrix inversion is a real computation and  *)
(* "equal within floating-point tolerance" is equality.  System transforms *)
(* are the affine matrices of the transform builders.                      *)
(***************************************************************************)
EXTENDS Integers, Sequences, FiniteSets, TLC

(***************************************************************************)
(* Bounds of the model.                                                    *)
(***************************************************************************)
MaxSystems == 3
MaxCoordinates == 3
\* coordinates the client constructs itself; the others come from conversions
MaxConstructed == 1
\* systems of a tree built from the transform builders
MaxBuilt == 2

(***************************************************************************)
(* Arrays.  A numpy float64 array is modelled exactly, as an array n of    *)
(* integers over one positive denominator d, in lowest terms: the array    *)
(* [[0.5, 0, 1.5], ...] is [n |-> <<<<1, 0, 3>>, ...>>, d |-> 2].          *)
(***************************************************************************)
Abs(x) == IF x < 0 THEN -x ELSE x

RECURSIVE GCD(_, _)
GCD(a, b) == IF b = 0 THEN a ELSE GCD(b, a % b)

GCD3(r) == GCD(GCD(Abs(r[1]), Abs(r[2])), Abs(r[3]))

\* the 3x3 array n / (s * d) divided through by g, where s is the sign of d
Reduce(n, d, g, s) ==
    [n |-> << << (s * n[1][1]) \div g, (s * n[1][2]) \div g, (s * n[1][3]) \div g >>,
              << (s * n[2][1]) \div g, (s * n[2][2]) \div g, (s * n[2][3]) \div g >>,
              << (s * n[3][1]) \div g, (s * n[3][2]) \div g, (s * n[3][3]) \div g >> >>,
     d |-> (s * d) \div g]

\* the 3x3 array n / d, in lowest terms (d # 0)
Mat(n, d) ==
    IF d = 1
    THEN [n |-> n, d |-> 1]
    ELSE Reduce(n, d,
                GCD(GCD(GCD3(n[1]), GCD3(n[2])), GCD(GCD3(n[3]), Abs(d))),
                IF d < 0 THEN -1 ELSE 1)

\* the 2-element array n / d, in lowest terms (d # 0)
Vec(n, d) ==
    LET g == GCD(GCD(Abs(n[1]), Abs(n[2])), Abs(d))
        s == IF d < 0 THEN -1 ELSE 1
    IN  IF d = 1
        THEN [n |-> n, d |-> 1]
        ELSE [n |-> << (s * n[1]) \div g, (s * n[2]) \div g >>, d |-> (s * d) \div g]

Dot3(r, c) == r[1] * c[1] + r[2] * c[2] + r[3] * c[3]

\* row a of the left factor times the integer 3x3 array b
Row(a, b) ==
    << a[1] * b[1][1] + a[2] * b[2][1] + a[3] * b[3][1],
       a[1] * b[1][2] + a[2] * b[2][2] + a[3] * b[3][2],
       a[1] * b[1][3] + a[2] * b[2][3] + a[3] * b[3][3] >>

\* A @ B for two 3x3 arrays
MatMul(A, B) ==
    Mat(<< Row(A.n[1], B.n), Row(A.n[2], B.n), Row(A.n[3], B.n) >>, A.d * B.d)

\* np.eye(3)
eye3 == Mat(<< << 1, 0, 0 >>, << 0, 1, 0 >>, << 0, 0, 1 >> >>, 1)

\* determinant of an integer 3x3 array
Det(N) ==
      N[1][1] * (N[2][2] * N[3][3] - N[2][3] * N[3][2])
    - N[1][2] * (N[2][1] * N[3][3] - N[2][3] * N[3][1])
    + N[1][3] * (N[2][1] * N[3][2] - N[2][2] * N[3][1])

\* index after i, cyclically in 1..3
Nxt(i) == (i % 3) + 1

\* cofactor of entry (i, j); the cyclic order of the indices carries the sign
Cofactor(N, i, j) ==
      N[Nxt(i)][Nxt(j)] * N[Nxt(Nxt(i))][Nxt(Nxt(j))]
    - N[Nxt(i)][Nxt(Nxt(j))] * N[Nxt(Nxt(i))][Nxt(j)]

\* np.linalg.inv: the inverse, or LinAlgError("Singular matrix").
\* inverse(n / d) = d * adjugate(n) / det(n)
inv(A) ==
    IF Det(A.n) = 0
    THEN [ok |-> FALSE, error |-> "LinAlgError", value |-> << >>]
    ELSE [ok |-> TRUE, error |-> "",
          value |-> Mat(<< << A.d * Cofactor(A.n, 1, 1), A.d * Cofactor(A.n, 2, 1),
                              A.d * Cofactor(A.n, 3, 1) >>,
                           << A.d * Cofactor(A.n, 1, 2), A.d * Cofactor(A.n, 2, 2),
                              A.d * Cofactor(A.n, 3, 2) >>,
                           << A.d * Cofactor(A.n, 1, 3), A.d * Cofactor(A.n, 2, 3),
                              A.d * Cofactor(A.n, 3, 3) >> >>,
                        Det(A.n))]

(***************************************************************************)
(* Transform builders.                                                     *)
(***************************************************************************)
\* translate2D that writes the translation into the last row
translate2D_row(tx, ty) ==
    Mat(<< << 1, 0, 0 >>,
           << 0, 1, 0 >>,
           << tx, ty, 1 >> >>, 1)

translate2D(tx, ty) ==
    Mat(<< << 1, 0, tx >>,
           << 0, 1, ty >>,
           << 0, 0, 1 >> >>, 1)

scale2D(sx, sy) ==
    Mat(<< << sx, 0, 0 >>,
           << 0, sy, 0 >>,
           << 0, 0, 1 >> >>, 1)

shear2D(kx, ky) ==
    Mat(<< << 1, kx, 0 >>,
           << ky, 1, 0 >>,
           << 0, 0, 1 >> >>, 1)

\* np.cos and np.sin.  An angle is a whole number of quarter turns: the
\* argument q stands for the angle q * pi / 2, whose cosine and sine are
\* 0, 1 or -1 (np.cos(np.pi / 2) is 6.1e-17, which is 0 within tolerance).
cos(q) == CASE q % 4 = 0 -> 1 [] q % 4 = 2 -> -1 [] OTHER -> 0
sin(q) == CASE q % 4 = 1 -> 1 [] q % 4 = 3 -> -1 [] OTHER -> 0

\* rotate2D that turns clockwise
rotate2D_clockwise(angle_rad) ==
    LET c == cos(angle_rad)
        s == sin(angle_rad)
    IN  Mat(<< << c, s, 0 >>,
               << -s, c, 0 >>,
               << 0, 0, 1 >> >>, 1)

rotate2D(angle_rad) ==
    LET c == cos(angle_rad)
        s == sin(angle_rad)
    IN  Mat(<< << c, -s, 0 >>,
               << s, c, 0 >>,
               << 0, 0, 1 >> >>, 1)

\* trs2D that multiplies in the order scale, rotate, translate
trs2D_srt(tx, ty, angle_rad, sx, sy) ==
    LET T == translate2D(tx, ty)
        R == rotate2D(angle_rad)
        S == scale2D(sx, sy)
    IN  MatMul(MatMul(S, R), T)

trs2D(tx, ty, angle_rad, sx, sy) ==
    LET T == translate2D(tx, ty)
        R == rotate2D(angle_rad)
        S == scale2D(sx, sy)
    IN  MatMul(MatMul(T, R), S)

(***************************************************************************)
(* Values of the program and the inputs the operations are called with.    *)
(***************************************************************************)
\* Python's None for an optional System reference, and for an optional array
NoSystem == 0
NoTransform == << >>

\* CoordinateType
POINT == "point"
VECTOR == "vector"
CoordinateType == {POINT, VECTOR}

\* transform arguments of System(...): matrices from the builders
TransformInputs ==
    {translate2D(5, 0), translate2D(0, 3), scale2D(2, 2), scale2D(0, 0)}

\* local_coords arguments of Point(...) / Vector(...)
CoordInputs == { Vec(<< 1, 2 >>, 1) }

\* transform arguments of transform_coordinate: any 3x3 array, among them
\* arrays whose bottom row is not [0, 0, 1]
MatrixInputs ==
    {scale2D(2, 2),
     Mat(<< << 1, 0, 0 >>, << 0, 1, 0 >>, << 1, 0, -1 >> >>, 1),
     Mat(<< << 1, 2, 3 >>, << 0, 1, 0 >>, << 1, 1, 1 >> >>, 1),
     Mat(<< << 1, 0, 5 >>, << 0, 1, 0 >>, << 0, 0, 2 >> >>, 1)}

\* coordinates arguments of transform_coordinate
ArrayInputs == { Vec(<< 1, 2 >>, 1), Vec(<< 0, 0 >>, 1), Vec(<< -1, 3 >>, 2) }

\* transform arguments of System(...), one call of each builder
BuilderInputs ==
    {translate2D(5, 0), rotate2D(1), scale2D(2, 3), shear2D(1, 2), scale2D(0, 0)}

\* arguments << tx, ty, angle_rad, sx, sy >> of trs2D and system_factory; the
\* first are the defaults of system_factory
TrsInputs ==
    {<< 0, 0, 0, 1, 1 >>, << 3, 2, 0, 1, 1 >>, << 0, 0, 1, 1, 1 >>,
     << 0, 0, 0, 2, 3 >>, << 3, 2, 1, 2, 2 >>, << 5, 3, -1, 2, 3 >>}

\* angle_rad arguments of rotate2D, in quarter turns
RotateInputs == -4..5

\* arguments of System(...) and Point(...) / Vector(...) of any shape: arrays
\* of 3x3, 2x2 and 3x4 numbers for a transform, of 2, 1 and 3 for local_coords
ShapeMatrixInputs ==
    {translate2D(5, 0),
     [n |-> << << 1, 0 >>, << 0, 1 >> >>, d |-> 1],
     [n |-> << << 1, 0, 0, 5 >>, << 0, 1, 0, 0 >>, << 0, 0, 0, 1 >> >>, d |-> 1]}

ShapeArrayInputs ==
    {[n |-> << 1, 2 >>, d |-> 1], [n |-> << 7 >>, d |-> 1], [n |-> << 1, 2, 3 >>, d |-> 1]}

(***************************************************************************)
(* State.                                                                  *)
(*   systems      the System objects constructed so far, in order of       *)
(*                construction; a System is named by its index             *)
(*   coordinates  the Coordinate objects constructed so far                *)
(*   history      for each Coordinate, the call that constructed it        *)
(*   ret          the last call (self is the receiver of a method, or the  *)
(*                arguments of a function) and the matrix it returned or   *)
(*                the error it raised;                                     *)
(*                a call that returns a System or a Coordinate leaves the  *)
(*                object in the tables and None here                       *)
(***************************************************************************)
VARIABLES systems, coordinates, history, ret

vars == << systems, coordinates, history, ret >>

SystemIds == 1..Len(systems)
CoordinateIds == 1..Len(coordinates)

(***************************************************************************)
(* System                                                                  *)
(***************************************************************************)
\* System.__init__
System(transform, parent) ==
    [transform |-> IF transform # NoTransform THEN transform ELSE eye3,
     parent |-> parent]

\* system_factory that leaves the parent out
system_factory_root(parent, tx, ty, angle_rad, sx, sy) ==
    LET transform == trs2D(tx, ty, angle_rad, sx, sy)
    IN  System(transform, NoSystem)

\* system_factory
system_factory(parent, tx, ty, angle_rad, sx, sy) ==
    LET transform == trs2D(tx, ty, angle_rad, sx, sy)
    IN  System(transform, parent)

\* global_transform with the factors of the product exchanged
RECURSIVE global_transform_swapped(_)
global_transform_swapped(self) ==
    IF systems[self].parent = NoSystem
    THEN systems[self].transform
    ELSE MatMul(systems[self].transform, global_transform_swapped(systems[self].parent))

\* global_transform that stops at the system's own transform
global_transform_own(self) == systems[self].transform

\* System.global_transform
RECURSIVE global_transform(_)
global_transform(self) ==
    IF systems[self].parent = NoSystem
    THEN systems[self].transform
    ELSE MatMul(global_transform(systems[self].parent), systems[self].transform)

\* global_transform that evaluates the parent's matrix twice
RECURSIVE global_transform_calls_twice(_)
global_transform_calls_twice(self) ==
    IF systems[self].parent = NoSystem
    THEN 1
    ELSE 1 + 2 * global_transform_calls_twice(systems[self].parent)

\* the number of calls of global_transform that s.global_transform() makes,
\* itself included: one, plus those of the parent's when there is a parent
RECURSIVE global_transform_calls(_)
global_transform_calls(self) ==
    IF systems[self].parent = NoSystem
    THEN 1
    ELSE 1 + global_transform_calls(systems[self].parent)

\* System.global_transform as Python runs it when the parent links may form
\* a cycle: the function has no check of its own, the recursion goes on until
\* the interpreter's recursion limit and ends in a RecursionError.  depth
\* counts the nested calls; a chain of more systems than exist has come back
\* to a system it has visited, and from there it never ends.
RECURSIVE global_transform_nested(_, _)
global_transform_nested(self, depth) ==
    IF depth > Len(systems)
    THEN [ok |-> FALSE, error |-> "RecursionError", value |-> << >>]
    ELSE IF systems[self].parent = NoSystem
    THEN [ok |-> TRUE, error |-> "", value |-> systems[self].transform]
    ELSE LET parent_transform == global_transform_nested(systems[self].parent, depth + 1)
         IN  IF parent_transform.ok
             THEN [ok |-> TRUE, error |-> "",
                   value |-> MatMul(parent_transform.value, systems[self].transform)]
             ELSE parent_transform

\* compute_convert_transform with the factors of the product exchanged
compute_convert_transform_swapped(self, target_system) ==
    LET inv_transform == inv(global_transform(target_system))
    IN  IF inv_transform.ok
        THEN [ok |-> TRUE, error |-> "",
              value |-> MatMul(global_transform(self), inv_transform.value)]
        ELSE inv_transform

\* compute_convert_transform that inverts the source's matrix, not the target's
compute_convert_transform_inv_self(self, target_system) ==
    LET inv_transform == inv(global_transform(self))
    IN  IF inv_transform.ok
        THEN [ok |-> TRUE, error |-> "",
              value |-> MatMul(inv_transform.value, global_transform(target_system))]
        ELSE inv_transform

\* compute_convert_transform that leaves the inversion out
compute_convert_transform_noinv(self, target_system) ==
    [ok |-> TRUE, error |-> "",
     value |-> MatMul(global_transform(target_system), global_transform(self))]

\* System.compute_convert_transform; raises what np.linalg.inv raises
compute_convert_transform(self, target_system) ==
    LET inv_transform == inv(global_transform(target_system))
    IN  IF inv_transform.ok
        THEN [ok |-> TRUE, error |-> "",
              value |-> MatMul(inv_transform.value, global_transform(self))]
        ELSE inv_transform

(***************************************************************************)
(* Coordinate                                                              *)
(***************************************************************************)
\* the weight component is dropped without the division
transform_coordinate_nodivide(transform, coords, coordinate_type) ==
    LET weight == IF coordinate_type = POINT THEN 1 ELSE 0
        homogeneous_point == << coords.n[1], coords.n[2], weight * coords.d >>
        transformed_point == << Dot3(transform.n[1], homogeneous_point),
                                Dot3(transform.n[2], homogeneous_point),
                                Dot3(transform.n[3], homogeneous_point) >>
    IN  Vec(<< transformed_point[1], transformed_point[2] >>, transform.d * coords.d)

\* transform_coordinate that gives every coordinate the weight of a point
transform_coordinate_weight1(transform, coords, coordinate_type) ==
    LET homogeneous_point == << coords.n[1], coords.n[2], coords.d >>
        transformed_point == << Dot3(transform.n[1], homogeneous_point),
                                Dot3(transform.n[2], homogeneous_point),
                                Dot3(transform.n[3], homogeneous_point) >>
        w == transformed_point[3]
    IN  IF w # 0
        THEN Vec(<< transformed_point[1], transformed_point[2] >>, w)
        ELSE Vec(<< transformed_point[1], transformed_point[2] >>,
                 transform.d * coords.d)

transform_coordinate(transform, coords, coordinate_type) ==
    LET weight == IF coordinate_type = POINT THEN 1 ELSE 0
        \* np.append(coordinates, weight), over the denominator coords.d
        homogeneous_point == << coords.n[1], coords.n[2], weight * coords.d >>
        \* transform @ homogeneous_point, over transform.d * coords.d
        transformed_point == << Dot3(transform.n[1], homogeneous_point),
                                Dot3(transform.n[2], homogeneous_point),
                                Dot3(transform.n[3], homogeneous_point) >>
        w == transformed_point[3]
    IN  IF w # 0
        THEN Vec(<< transformed_point[1], transformed_point[2] >>, w)
        ELSE Vec(<< transformed_point[1], transformed_point[2] >>,
                 transform.d * coords.d)

\* the arguments of a Coordinate(...) construction
\* r . c for two rows of numbers of the same length
RECURSIVE Dot(_, _)
Dot(r, c) == IF r = << >> THEN 0 ELSE Head(r) * Head(c) + Dot(Tail(r), Tail(c))

\* transform_coordinate on arrays of any shape.  The function checks no
\* shape: numpy raises ValueError when the shapes do not match in @ and
\* IndexError when the product has no component 2.
transform_coordinate_shapes(transform, coords, coordinate_type) ==
    LET weight == IF coordinate_type = POINT THEN 1 ELSE 0
        homogeneous_point == Append(coords.n, weight * coords.d)
        transformed_point == [i \in 1..Len(transform.n) |->
                                 Dot(transform.n[i], homogeneous_point)]
    IN  IF \E i \in 1..Len(transform.n) : Len(transform.n[i]) # Len(homogeneous_point)
        THEN [ok |-> FALSE, error |-> "ValueError", value |-> << >>]
        ELSE IF Len(transformed_point) < 3
        THEN [ok |-> FALSE, error |-> "IndexError", value |-> << >>]
        ELSE [ok |-> TRUE, error |-> "",
              value |-> IF transformed_point[3] # 0
                        THEN Vec(<< transformed_point[1], transformed_point[2] >>,
                                 transformed_point[3])
                        ELSE Vec(<< transformed_point[1], transformed_point[2] >>,
                                 transform.d * coords.d)]

CoordinateArgs(coordinate_type, local_coords, system) ==
    [coordinate_type |-> coordinate_type, local_coords |-> local_coords,
     system |-> system]

\* to_global that returns the coordinate itself when its system has no parent
to_global_root_returns_self(self) ==
    LET c == coordinates[self]
        gt == global_transform(c.system)
        global_coords == transform_coordinate(gt, c.local_coords, c.coordinate_type)
    IN  IF systems[c.system].parent = NoSystem
        THEN [ok |-> TRUE, error |-> "",
              args |-> CoordinateArgs(c.coordinate_type, c.local_coords, c.system)]
        ELSE [ok |-> TRUE, error |-> "",
              args |-> CoordinateArgs(c.coordinate_type, global_coords, NoSystem)]

\* to_global that leaves its result in the source's system
to_global_keeps_system(self) ==
    LET c == coordinates[self]
        gt == global_transform(c.system)
        global_coords == transform_coordinate(gt, c.local_coords, c.coordinate_type)
    IN  [ok |-> TRUE, error |-> "",
         args |-> CoordinateArgs(c.coordinate_type, global_coords, c.system)]

\* Coordinate.to_global: the Coordinate(...) it constructs
to_global(self) ==
    LET c == coordinates[self]
        gt == global_transform(c.system)
        global_coords == transform_coordinate(gt, c.local_coords, c.coordinate_type)
    IN  [ok |-> TRUE, error |-> "",
         args |-> CoordinateArgs(c.coordinate_type, global_coords, NoSystem)]

\* to_system that tags its result with the source's system
to_system_tag_source(self, target_system) ==
    LET c == coordinates[self]
        convert_transform == compute_convert_transform(c.system, target_system)
    IN  IF convert_transform.ok
        THEN [ok |-> TRUE, error |-> "",
              args |-> CoordinateArgs(
                  c.coordinate_type,
                  transform_coordinate(convert_transform.value, c.local_coords,
                                       c.coordinate_type),
                  c.system)]
        ELSE [ok |-> FALSE, error |-> convert_transform.error,
              args |-> CoordinateArgs(c.coordinate_type, c.local_coords, c.system)]

\* to_system that always returns a Point
to_system_returns_point(self, target_system) ==
    LET c == coordinates[self]
        convert_transform == compute_convert_transform(c.system, target_system)
    IN  IF convert_transform.ok
        THEN [ok |-> TRUE, error |-> "",
              args |-> CoordinateArgs(
                  POINT,
                  transform_coordinate(convert_transform.value, c.local_coords,
                                       c.coordinate_type),
                  target_system)]
        ELSE [ok |-> FALSE, error |-> convert_transform.error,
              args |-> CoordinateArgs(c.coordinate_type, c.local_coords, c.system)]

\* Coordinate.to_system: the Coordinate(...) it constructs, or the error raised
to_system(self, target_system) ==
    LET c == coordinates[self]
        convert_transform == compute_convert_transform(c.system, target_system)
    IN  IF convert_transform.ok
        THEN [ok |-> TRUE, error |-> "",
              args |-> CoordinateArgs(
                  c.coordinate_type,
                  transform_coordinate(convert_transform.value, c.local_coords,
                                       c.coordinate_type),
                  target_system)]
        ELSE [ok |-> FALSE, error |-> convert_transform.error,
              args |-> CoordinateArgs(c.coordinate_type, c.local_coords, c.system)]

(***************************************************************************)
(* Calls.                                                                  *)
(***************************************************************************)
Ret(op, self, target, ok, error, value) ==
    [op |-> op, self |-> self, target |-> target, ok |-> ok, error |-> error,
     value |-> value]

ReturnedObject == Ret("", 0, 0, TRUE, "", << >>)

\* a conversion that writes its result into the coordinate it was called on
Construct_in_place(args, op, self, target) ==
    LET fresh == args.system = NoSystem
        sys == IF fresh THEN Len(systems) + 1 ELSE args.system
    IN  /\ Len(coordinates) < MaxCoordinates
        /\ fresh => Len(systems) < MaxSystems
        /\ systems' = IF fresh
                      THEN Append(systems, System(NoTransform, NoSystem))
                      ELSE systems
        /\ coordinates' = IF self = 0
                          THEN Append(coordinates, [args EXCEPT !.system = sys])
                          ELSE [coordinates EXCEPT ![self] = [args EXCEPT !.system = sys]]
        /\ history' = IF self = 0
                      THEN Append(history, [op |-> op, src |-> self, target |-> target])
                      ELSE history
        /\ ret' = ReturnedObject

\* Coordinate.__init__ run on args: a missing system becomes a new System()
Construct(args, op, self, target) ==
    LET fresh == args.system = NoSystem
        sys == IF fresh THEN Len(systems) + 1 ELSE args.system
    IN  /\ Len(coordinates) < MaxCoordinates
        /\ fresh => Len(systems) < MaxSystems
        /\ systems' = IF fresh
                      THEN Append(systems, System(NoTransform, NoSystem))
                      ELSE systems
        /\ coordinates' = Append(coordinates, [args EXCEPT !.system = sys])
        /\ history' = Append(history, [op |-> op, src |-> self, target |-> target])
        /\ ret' = ReturnedObject

\* s = System(transform, parent)
NewSystem(transform, parent) ==
    /\ Len(systems) < MaxSystems
    /\ systems' = Append(systems, System(transform, parent))
    /\ ret' = ReturnedObject
    /\ UNCHANGED << coordinates, history >>

\* c = Point(local_coords, system) or Vector(local_coords, system)
NewCoordinate(coordinate_type, local_coords, system) ==
    /\ Cardinality({c \in CoordinateIds : history[c].op = "Coordinate"}) < MaxConstructed
    /\ Construct(CoordinateArgs(coordinate_type, local_coords, system),
                 "Coordinate", 0, system)

\* s.global_transform()
GlobalTransform(self) ==
    /\ ret' = Ret("global_transform", self, 0, TRUE, "", global_transform(self))
    /\ UNCHANGED << systems, coordinates, history >>

\* s.compute_convert_transform(t)
ComputeConvertTransform(self, target_system) ==
    \E r \in {compute_convert_transform(self, target_system)} :
        /\ ret' = Ret("compute_convert_transform", self, target_system,
                      r.ok, r.error, r.value)
        /\ UNCHANGED << systems, coordinates, history >>

\* c.to_global()
ToGlobal(self) ==
    /\ Len(coordinates) < MaxCoordinates
    /\ Len(systems) < MaxSystems
    /\ \E r \in {to_global(self)} : Construct(r.args, "to_global", self, 0)

\* c.to_system(t)
ToSystem(self, target_system) ==
    \E r \in {to_system(self, target_system)} :
        \/ /\ r.ok
           /\ Construct(r.args, "to_system", self, target_system)
        \/ /\ ~r.ok
           /\ ret' = Ret("to_system", self, target_system, FALSE, r.error, << >>)
           /\ UNCHANGED << systems, coordinates, history >>

\* transform_coordinate(s.transform, c.local_coords, c.coordinate_type)
TransformCoordinate(s, c) ==
    /\ ret' = Ret("transform_coordinate", c, s, TRUE, "",
                  transform_coordinate(systems[s].transform,
                                       coordinates[c].local_coords,
                                       coordinates[c].coordinate_type))
    /\ UNCHANGED << systems, coordinates, history >>

\* s = system_factory(parent, tx, ty, angle_rad, sx, sy)
SystemFactory(parent, tx, ty, angle_rad, sx, sy) ==
    /\ Len(systems) < MaxBuilt
    /\ systems' = Append(systems, system_factory(parent, tx, ty, angle_rad, sx, sy))
    /\ ret' = Ret("system_factory", << tx, ty, angle_rad, sx, sy >>, parent,
                  TRUE, "", Len(systems) + 1)
    /\ UNCHANGED << coordinates, history >>

\* s = System(transform, parent) in a tree of at most MaxBuilt systems
BuildSystem(transform, parent) ==
    /\ Len(systems) < MaxBuilt
    /\ NewSystem(transform, parent)

\* trs2D(tx, ty, angle_rad, sx, sy)
Trs2D(tx, ty, angle_rad, sx, sy) ==
    /\ ret' = Ret("trs2D", << tx, ty, angle_rad, sx, sy >>, 0, TRUE, "",
                  trs2D(tx, ty, angle_rad, sx, sy))
    /\ UNCHANGED << systems, coordinates, history >>

\* rotate2D(angle_rad)
Rotate2D(angle_rad) ==
    /\ ret' = Ret("rotate2D", << angle_rad >>, 0, TRUE, "", rotate2D(angle_rad))
    /\ UNCHANGED << systems, coordinates, history >>

\* c.to_global() for a coordinate and a system of any shape
ToGlobalShapes(self) ==
    LET c == coordinates[self]
    IN  \E r \in {transform_coordinate_shapes(global_transform(c.system),
                                              c.local_coords, c.coordinate_type)} :
            \/ /\ r.ok
               /\ Len(systems) < MaxSystems
               /\ Construct(CoordinateArgs(c.coordinate_type, r.value, NoSystem),
                            "to_global", self, 0)
            \/ /\ ~r.ok
               /\ ret' = Ret("to_global", self, 0, FALSE, r.error, << >>)
               /\ UNCHANGED << systems, coordinates, history >>

\* s.parent = parent, an assignment to the attribute of an existing system
SetParent(self, parent) ==
    /\ systems' = [systems EXCEPT ![self].parent = parent]
    /\ ret' = ReturnedObject
    /\ UNCHANGED << coordinates, history >>

\* s.global_transform() in a tree whose parent links may form a cycle
GlobalTransformNested(self) ==
    \E r \in {global_transform_nested(self, 1)} :
        /\ ret' = Ret("global_transform", self, 0, r.ok, r.error, r.value)
        /\ UNCHANGED << systems, coordinates, history >>

Init ==
    /\ systems = << >>
    /\ coordinates = << >>
    /\ history = << >>
    /\ ret = ReturnedObject

\* a client that builds a tree of systems and queries its matrices
NextSystem ==
    \/ \E t \in TransformInputs, p \in {NoSystem} \cup SystemIds : NewSystem(t, p)
    \/ \E s \in SystemIds : GlobalTransform(s)
    \/ \E s \in SystemIds, t \in SystemIds : ComputeConvertTransform(s, t)

SpecSystem == Init /\ [][NextSystem]_vars

\* a client that builds a tree of systems, puts coordinates in it and converts them
Next ==
    \/ \E t \in TransformInputs, p \in {NoSystem} \cup SystemIds : NewSystem(t, p)
    \/ \E k \in CoordinateType, v \in CoordInputs, s \in {NoSystem} \cup SystemIds :
          NewCoordinate(k, v, s)
    \/ \E c \in CoordinateIds : ToGlobal(c)
    \/ \E c \in CoordinateIds, t \in SystemIds : ToSystem(c, t)

Spec == Init /\ [][Next]_vars

\* a client that applies the matrices of parentless systems, affine or not,
\* to the arrays of coordinates
NextTransform ==
    \/ \E t \in MatrixInputs : NewSystem(t, NoSystem)
    \/ \E k \in CoordinateType, v \in ArrayInputs : NewCoordinate(k, v, NoSystem)
    \/ \E s \in SystemIds, c \in CoordinateIds : TransformCoordinate(s, c)

SpecTransform == Init /\ [][NextTransform]_vars

\* a client that calls the builders, builds a tree of systems from their
\* matrices and queries the matrices of the tree
NextBuild ==
    \/ \E a \in TrsInputs, p \in {NoSystem} \cup SystemIds :
          SystemFactory(p, a[1], a[2], a[3], a[4], a[5])
    \/ \E t \in BuilderInputs, p \in {NoSystem} \cup SystemIds : BuildSystem(t, p)
    \/ \E a \in TrsInputs : Trs2D(a[1], a[2], a[3], a[4], a[5])
    \/ \E q \in RotateInputs : Rotate2D(q)
    \/ \E s \in SystemIds : GlobalTransform(s)
    \/ \E s \in SystemIds, t \in SystemIds : ComputeConvertTransform(s, t)

SpecBuild == Init /\ [][NextBuild]_vars

\* a client that passes arrays of any shape to the constructors
NextShapes ==
    \/ \E t \in ShapeMatrixInputs : NewSystem(t, NoSystem)
    \/ \E k \in CoordinateType, v \in ShapeArrayInputs, s \in {NoSystem} \cup SystemIds :
          NewCoordinate(k, v, s)
    \/ \E c \in CoordinateIds : ToGlobalShapes(c)

SpecShapes == Init /\ [][NextShapes]_vars

\* a client that builds systems and reassigns their parents
NextCyclic ==
    \/ \E t \in TransformInputs, p \in {NoSystem} \cup SystemIds : NewSystem(t, p)
    \/ \E s \in SystemIds, p \in {NoSystem} \cup SystemIds : SetParent(s, p)
    \/ \E s \in SystemIds : GlobalTransformNested(s)

SpecCyclic == Init /\ [][NextCyclic]_vars

(***************************************************************************)
(* Vocabulary of the properties.                                           *)
(***************************************************************************)
\* the parent chain of a system, root first, the system itself last
RECURSIVE Chain(_)
Chain(f) ==
    IF systems[f].parent = NoSystem THEN << f >>
    ELSE Append(Chain(systems[f].parent), f)

\* the ordered product F0 * (F1 * (... * Fn)) of the transforms of a chain
RECURSIVE ChainProduct(_)
ChainProduct(chain) ==
    IF Len(chain) = 1 THEN systems[chain[1]].transform
    ELSE MatMul(systems[chain[1]].transform, ChainProduct(Tail(chain)))

\* the global matrix of a system, as the product along its chain
Global(f) == ChainProduct(Chain(f))

Invertible(M) == Det(M.n) # 0

\* M is translate2D(M.n[1][3], M.n[2][3])
IsTranslation(M) ==
    /\ M.d = 1
    /\ M.n[1][1] = 1 /\ M.n[1][2] = 0
    /\ M.n[2][1] = 0 /\ M.n[2][2] = 1
    /\ M.n[3] = << 0, 0, 1 >>

\* every transform of the chain of f is a pure translation
TranslationChain(f) ==
    \A i \in 1..Len(Chain(f)) : IsTranslation(systems[Chain(f)[i]].transform)

\* the sum of the translations of a chain of pure translations
RECURSIVE TranslationSum(_)
TranslationSum(chain) ==
    IF chain = << >> THEN << 0, 0 >>
    ELSE LET t == systems[chain[1]].transform.n
             r == TranslationSum(Tail(chain))
         IN  << t[1][3] + r[1], t[2][3] + r[2] >>

\* the 2-element array v shifted by the integer pair t
Shift(v, t) == Vec(<< v.n[1] + t[1] * v.d, v.n[2] + t[2] * v.d >>, v.d)

\* the 2x2 linear block of M applied to v, the translation column left out
Linear(M, v) ==
    Vec(<< M.n[1][1] * v.n[1] + M.n[1][2] * v.n[2],
           M.n[2][1] * v.n[1] + M.n[2][2] * v.n[2] >>, M.d * v.d)

\* the 2x2 linear block of M applied to v, plus the translation column of M
Affine(M, v) ==
    Vec(<< M.n[1][1] * v.n[1] + M.n[1][2] * v.n[2] + M.n[1][3] * v.d,
           M.n[2][1] * v.n[1] + M.n[2][2] * v.n[2] + M.n[2][3] * v.d >>, M.d * v.d)

\* the coordinates returned by to_global / by to_system
Globals == {c \in CoordinateIds : history[c].op = "to_global"}
Converted == {c \in CoordinateIds : history[c].op = "to_system"}

\* the coordinate a conversion was called on, and the system it was in
Src(c) == coordinates[history[c].src]
SrcSystem(c) == coordinates[history[c].src].system

\* the coordinate the client constructed, from which c comes by conversions
RECURSIVE Origin(_)
Origin(c) == IF history[c].src = 0 THEN c ELSE Origin(history[c].src)

(***************************************************************************)
(* C1: global_transform() returns the system's own transform when it has   *)
(* no parent, otherwise the parent's global matrix multiplied on the right *)
(* by its own transform; for a chain root = F0, ..., Fn = self that is the *)
(* ordered product F0.transform * F1.transform * ... * Fn.transform.       *)
(***************************************************************************)
C1_GlobalTransformIsChainProduct ==
    ret.op = "global_transform" =>
        LET f == systems[ret.self] IN
        /\ f.parent = NoSystem => ret.value = f.transform
        /\ f.parent # NoSystem => ret.value = MatMul(Global(f.parent), f.transform)
        /\ ret.value = Global(ret.self)

\* a chain of three systems whose product depends on the order of the factors
C1_Witness ==
    /\ ret.op = "global_transform"
    /\ Len(Chain(ret.self)) = 3
    /\ LET f == systems[ret.self] IN
       MatMul(Global(f.parent), f.transform) # MatMul(f.transform, Global(f.parent))

(***************************************************************************)
(* C2: for a target T whose global matrix is invertible,                   *)
(* S.compute_convert_transform(T) returns the matrix M with                *)
(* T.global_transform() * M = S.global_transform().                        *)
(***************************************************************************)
C2_ConvertTransformSolves ==
    (ret.op = "compute_convert_transform" /\ Invertible(Global(ret.target))) =>
        /\ ret.ok
        /\ MatMul(Global(ret.target), ret.value) = Global(ret.self)

\* source and target differ, the target's chain has two systems and its inverse
\* is not an integer matrix
C2_Witness ==
    /\ ret.op = "compute_convert_transform"
    /\ ret.ok
    /\ ret.self # ret.target
    /\ Len(Chain(ret.target)) = 2
    /\ ret.value.d = 2
    /\ Global(ret.self) # Global(ret.target)

(***************************************************************************)
(* C3: when the target's global matrix is singular (the target or one of   *)
(* its ancestors is scale2D(0, 0)), compute_convert_transform, and with it *)
(* to_system, fails with the singular-matrix error (numpy's LinAlgError,   *)
(* raised by np.linalg.inv) and returns no matrix and no coordinate.       *)
(***************************************************************************)
HasZeroScale(t) ==
    \E i \in 1..Len(Chain(t)) : systems[Chain(t)[i]].transform = scale2D(0, 0)

C4_Original ==
    /\ \A c \in Converted :
          history[c].target = SrcSystem(c) =>
             coordinates[c].local_coords = Src(c).local_coords
    /\ ~(/\ ret.op = "to_system"
         /\ ~ret.ok
         /\ ret.target = coordinates[ret.self].system)

(***************************************************************************)
(* C4, amended: for any system F whose global matrix is invertible and any *)
(* coordinate C in F, C.to_system(F) yields a coordinate with C's          *)
(* local_coords; it fails only when F's global matrix is singular.         *)
(***************************************************************************)
C4_RoundTripOwnSystem ==
    /\ \A c \in Converted :
          history[c].target = SrcSystem(c) =>
             coordinates[c].local_coords = Src(c).local_coords
    /\ (/\ ret.op = "to_system"
        /\ ~ret.ok
        /\ ret.target = coordinates[ret.self].system) =>
          ~Invertible(Global(ret.target))

\* a coordinate converted to its own system, which scales and translates
C4_Witness ==
    \E c \in Converted :
        /\ history[c].target = SrcSystem(c)
        /\ Len(Chain(SrcSystem(c))) = 2
        /\ ~IsTranslation(Global(SrcSystem(c)))
        /\ Global(SrcSystem(c)).n[1][3] # 0

(***************************************************************************)
(* C5: for systems A and B with invertible global matrices and a           *)
(* coordinate C in A, C.to_system(B).to_system(A) has C's local_coords and *)
(* is in system A.                                                         *)
(***************************************************************************)
C5_InverseConsistency ==
    \A c2 \in Converted :
        LET c1 == history[c2].src
            c0 == history[c1].src
        IN  (/\ c1 \in Converted
             /\ history[c2].target = coordinates[c0].system) =>
               /\ coordinates[c2].local_coords = coordinates[c0].local_coords
               /\ coordinates[c2].system = coordinates[c0].system

\* a round trip A -> B -> A between different systems that changed the
\* coordinates on the way
C5_Witness ==
    \E c2 \in Converted :
        LET c1 == history[c2].src
            c0 == history[c1].src
        IN  /\ c1 \in Converted
            /\ history[c2].target = coordinates[c0].system
            /\ history[c1].target # coordinates[c0].system
            /\ coordinates[c1].local_coords # coordinates[c0].local_coords
            /\ coordinates[c1].local_coords.d = 2

(***************************************************************************)
(* C6: vectors are immune to translation.  A Vector in a system whose      *)
(* chain consists of pure translations converts to_global unchanged; the   *)
(* conversion of a Vector uses only the linear 2x2 block of the matrix,    *)
(* never its translation column, whereas a Point also gets the translation *)
(* column added.                                                           *)
(***************************************************************************)
\* the matrix that to_system applies for the conversion that returned c
ConvertMatrix(c) ==
    MatMul(inv(Global(history[c].target)).value, Global(SrcSystem(c)))

Transformed(M, c) ==
    IF Src(c).coordinate_type = VECTOR
    THEN coordinates[c].local_coords = Linear(M, Src(c).local_coords)
    ELSE coordinates[c].local_coords = Affine(M, Src(c).local_coords)

C6_VectorsIgnoreTranslation ==
    /\ \A c \in Globals :
          (Src(c).coordinate_type = VECTOR /\ TranslationChain(SrcSystem(c))) =>
             coordinates[c].local_coords = Src(c).local_coords
    /\ \A c \in Globals : Transformed(Global(SrcSystem(c)), c)
    /\ \A c \in Converted : Transformed(ConvertMatrix(c), c)

\* a Vector taken to global through two translations that are not zero
C6_Witness ==
    \E c \in Globals :
        /\ Src(c).coordinate_type = VECTOR
        /\ TranslationChain(SrcSystem(c))
        /\ TranslationSum(Chain(SrcSystem(c))) = << 5, 3 >>
        /\ Src(c).local_coords = Vec(<< 1, 2 >>, 1)

(***************************************************************************)
(* C7: to_global() returns transform_coordinate(system.global_transform(), *)
(* local_coords, kind); along a chain of pure translations a Point p maps  *)
(* to p plus the sum of the translations from its system up to and         *)
(* including the root.                                                     *)
(***************************************************************************)
C7_ToGlobalComposes ==
    \A c \in Globals :
        /\ coordinates[c].local_coords =
              transform_coordinate(Global(SrcSystem(c)), Src(c).local_coords,
                                   Src(c).coordinate_type)
        /\ (Src(c).coordinate_type = POINT /\ TranslationChain(SrcSystem(c))) =>
              coordinates[c].local_coords =
                 Shift(Src(c).local_coords, TranslationSum(Chain(SrcSystem(c))))

\* Point([1, 2]) in translate2D(0, 3) under translate2D(5, 0), or the other way
\* round, comes out at [6, 5]
C7_Witness ==
    \E c \in Globals :
        /\ Src(c).coordinate_type = POINT
        /\ Len(Chain(SrcSystem(c))) = 2
        /\ TranslationChain(SrcSystem(c))
        /\ systems[SrcSystem(c)].transform # systems[systems[SrcSystem(c)].parent].transform
        /\ coordinates[c].local_coords = Vec(<< 6, 5 >>, 1)

(***************************************************************************)
(* C8: for systems A = translate2D(a) and B = translate2D(b) that are both *)
(* parentless or have the same parent, a Point p in A converted with       *)
(* to_system(B) has local_coords p + a - b, whatever the shared parent's   *)
(* (invertible) global matrix is.                                          *)
(***************************************************************************)
C8_TranslatedSiblings ==
    \A c \in Converted :
        LET a == systems[SrcSystem(c)]
            b == systems[history[c].target]
        IN  (/\ Src(c).coordinate_type = POINT
             /\ IsTranslation(a.transform)
             /\ IsTranslation(b.transform)
             /\ a.parent = b.parent) =>
               coordinates[c].local_coords =
                  Shift(Src(c).local_coords,
                        << a.transform.n[1][3] - b.transform.n[1][3],
                           a.transform.n[2][3] - b.transform.n[2][3] >>)

\* siblings translate2D(5, 0) and translate2D(0, 3) under a parent that scales:
\* Point([1, 2]) comes out at [6, -1]
C8_Witness ==
    \E c \in Converted :
        LET a == systems[SrcSystem(c)]
            b == systems[history[c].target]
        IN  /\ Src(c).coordinate_type = POINT
            /\ a.transform = translate2D(5, 0)
            /\ b.transform = translate2D(0, 3)
            /\ a.parent = b.parent
            /\ a.parent # NoSystem
            /\ systems[a.parent].transform = scale2D(2, 2)
            /\ coordinates[c].local_coords = Vec(<< 6, -1 >>, 1)

\* two parentless systems translate2D(5, 0) and translate2D(0, 3)
C8_WitnessRoots ==
    \E c \in Converted :
        LET a == systems[SrcSystem(c)]
            b == systems[history[c].target]
        IN  /\ Src(c).coordinate_type = POINT
            /\ a.transform = translate2D(5, 0)
            /\ b.transform = translate2D(0, 3)
            /\ a.parent = NoSystem
            /\ b.parent = NoSystem
            /\ coordinates[c].local_coords = Vec(<< 6, -1 >>, 1)

(***************************************************************************)
(* C9, as claimed: to_global() on a coordinate whose system has no parent  *)
(* returns a coordinate with the local_coords unchanged; only for a system *)
(* with a parent does it apply global_transform(), and the coordinate it   *)
(* returns is then in the root system of the source's tree.                *)
(***************************************************************************)
Root(f) == Chain(f)[1]

C9_Original ==
    \A c \in Globals :
        /\ systems[SrcSystem(c)].parent = NoSystem =>
              coordinates[c].local_coords = Src(c).local_coords
        /\ systems[SrcSystem(c)].parent # NoSystem =>
              coordinates[c].system = Root(SrcSystem(c))

(***************************************************************************)
(* C9, amended: to_global() applies system.global_transform() whether or   *)
(* not the system has a parent.  For a system with no parent that is the   *)
(* system's own transform, so the local_coords come back unchanged when    *)
(* that transform is the identity and shifted by it when it is a           *)
(* translation; the coordinate returned is in a new parentless identity    *)
(* system, which is not a system of the source's chain.                    *)
(***************************************************************************)
C9_ToGlobalAppliesRootTransform ==
    \A c \in Globals :
        LET f == SrcSystem(c) IN
        /\ systems[f].parent = NoSystem => Transformed(systems[f].transform, c)
        /\ (systems[f].parent = NoSystem /\ systems[f].transform = eye3) =>
              coordinates[c].local_coords = Src(c).local_coords
        /\ systems[coordinates[c].system] = System(NoTransform, NoSystem)
        /\ \A i \in 1..Len(Chain(f)) : Chain(f)[i] # coordinates[c].system

\* to_global() of a Point in a parentless translated system moved the point
C9_Witness ==
    \E c \in Globals :
        /\ systems[SrcSystem(c)].parent = NoSystem
        /\ systems[SrcSystem(c)].transform = translate2D(5, 0)
        /\ Src(c).coordinate_type = POINT
        /\ coordinates[c].local_coords = Vec(<< 6, 2 >>, 1)
        /\ coordinates[c].system # SrcSystem(c)

(***************************************************************************)
(* C10: every coordinate obtained by a chain of successful to_global and   *)
(* to_system calls has the kind (POINT or VECTOR) of the coordinate the    *)
(* chain started from.                                                     *)
(***************************************************************************)
C10_KindPreserved ==
    \A c \in CoordinateIds :
        /\ coordinates[c].coordinate_type \in CoordinateType
        /\ coordinates[c].coordinate_type = coordinates[Origin(c)].coordinate_type

\* a Vector that went through to_system and then to_global, and a Point likewise
C10_Witness ==
    \E c \in Globals :
        /\ history[c].src \in Converted
        /\ coordinates[Origin(c)].coordinate_type = VECTOR
        /\ Origin(c) # history[c].src
        /\ coordinates[c].local_coords # coordinates[Origin(c)].local_coords

(***************************************************************************)
(* C11: no operation changes an object that exists.  Over every call of    *)
(* to_global and to_system, successful or failed (and so over the          *)
(* global_transform and compute_convert_transform calls they make), every  *)
(* system that existed keeps its transform and parent and every coordinate *)
(* that existed keeps its kind, local_coords and system; a conversion that *)
(* succeeds returns a new Coordinate, which is none of the existing ones,  *)
(* its source included.                                                    *)
(***************************************************************************)
IsPrefix(s, t) == Len(s) <= Len(t) /\ SubSeq(t, 1, Len(s)) = s

C11_NoMutation ==
    [][/\ IsPrefix(systems, systems')
       /\ IsPrefix(coordinates, coordinates')
       /\ IsPrefix(history, history')
       /\ Len(history') = Len(coordinates')
       /\ \A c \in 1..Len(coordinates') :
             history'[c].op \in {"to_global", "to_system"} =>
                /\ history'[c].src \in 1..(c - 1)
                /\ c \in CoordinateIds \/ c = Len(coordinates) + 1]_vars

\* the constructed coordinate is as it was constructed after a to_global, a
\* to_system and a failed to_system were called on it
C11_Witness ==
    /\ \E c \in Globals : history[c].src = 1
    /\ \E c \in Converted :
          history[c].src = 1 /\ coordinates[c].local_coords # coordinates[1].local_coords
    /\ ret.op = "to_system" /\ ret.self = 1 /\ ~ret.ok
    /\ history[1].op = "Coordinate"
    /\ coordinates[1].local_coords = Vec(<< 1, 2 >>, 1)

(***************************************************************************)
(* C12: transform_coordinate lifts [x, y] to [x, y, w], w = 1 for a Point  *)
(* and 0 for a Vector, multiplies it by the 3x3 matrix, and returns the    *)
(* first two components of the product divided by the third when the third *)
(* is not zero, and undivided when it is zero; for every 3x3 matrix,       *)
(* whatever its bottom row.                                                *)
(***************************************************************************)
\* the numerators of transform @ [x, y, w], over the denominator HomDen
Hom(M, c) ==
    LET v == c.local_coords
        w == IF c.coordinate_type = POINT THEN 1 ELSE 0
    IN  << M.n[1][1] * v.n[1] + M.n[1][2] * v.n[2] + M.n[1][3] * w * v.d,
           M.n[2][1] * v.n[1] + M.n[2][2] * v.n[2] + M.n[2][3] * w * v.d,
           M.n[3][1] * v.n[1] + M.n[3][2] * v.n[2] + M.n[3][3] * w * v.d >>

HomDen(M, c) == M.d * c.local_coords.d

IsAffine(M) == M.n[3] = << 0, 0, M.d >>

C12_HomogeneousDivide ==
    ret.op = "transform_coordinate" =>
        LET M == systems[ret.target].transform
            c == coordinates[ret.self]
            h == Hom(M, c)
            r == ret.value
        IN  /\ Len(r.n) = 2 /\ r.d > 0
            /\ h[3] # 0 => /\ r.n[1] * h[3] = h[1] * r.d
                           /\ r.n[2] * h[3] = h[2] * r.d
            /\ h[3] = 0 => /\ r.n[1] * HomDen(M, c) = h[1] * r.d
                           /\ r.n[2] * HomDen(M, c) = h[2] * r.d

\* a Point through a matrix that is not affine, with a weight that is neither
\* 0 nor 1: [1, 2] through [[1,2,3],[0,1,0],[1,1,1]] is [8, 2, 4], so [2, 1/2]
C12_Witness ==
    /\ ret.op = "transform_coordinate"
    /\ ~IsAffine(systems[ret.target].transform)
    /\ coordinates[ret.self].coordinate_type = POINT
    /\ coordinates[ret.self].local_coords = Vec(<< 1, 2 >>, 1)
    /\ Hom(systems[ret.target].transform, coordinates[ret.self]) = << 8, 2, 4 >>
    /\ ret.value = Vec(<< 4, 1 >>, 2)

\* a Point whose weight comes out 0 is returned undivided: [1, 2] through
\* [[1,0,0],[0,1,0],[1,0,-1]] is [1, 2, 0], so [1, 2]
C12_WitnessZeroWeight ==
    /\ ret.op = "transform_coordinate"
    /\ ~IsAffine(systems[ret.target].transform)
    /\ coordinates[ret.self].coordinate_type = POINT
    /\ Hom(systems[ret.target].transform, coordinates[ret.self]) = << 1, 2, 0 >>
    /\ ret.value = Vec(<< 1, 2 >>, 1)

\* a Vector whose weight comes out other than 0 is divided by it
C12_WitnessVectorWeight ==
    /\ ret.op = "transform_coordinate"
    /\ coordinates[ret.self].coordinate_type = VECTOR
    /\ Hom(systems[ret.target].transform, coordinates[ret.self])[3] = 3
    /\ ret.value = Vec(<< 5, 2 >>, 3)

(***************************************************************************)
(* C13: affine closure.  Every matrix that translate2D, rotate2D, scale2D, *)
(* shear2D and trs2D return is 3x3 with the bottom row [0, 0, 1], and so   *)
(* is every matrix that global_transform and a successful                  *)
(* compute_convert_transform return in a tree built from such matrices.    *)
(* Such a matrix gives a Point the homogeneous weight 1 and a Vector the   *)
(* weight 0, so that the division by the weight changes no value: the      *)
(* result is the plain affine (Point) or linear (Vector) image.            *)
(***************************************************************************)
Is3x3(M) == Len(M.n) = 3 /\ \A i \in 1..3 : Len(M.n[i]) = 3

QueryReturned == ret.op \in {"global_transform", "compute_convert_transform"} /\ ret.ok

C13_AffineClosure ==
    /\ \A t \in BuilderInputs : Is3x3(t) /\ IsAffine(t)
    /\ \A f \in SystemIds : Is3x3(systems[f].transform) /\ IsAffine(systems[f].transform)
    /\ ret.op \in {"trs2D", "rotate2D"} => Is3x3(ret.value) /\ IsAffine(ret.value)
    /\ QueryReturned => Is3x3(ret.value) /\ IsAffine(ret.value)
    /\ QueryReturned =>
          \A v \in ArrayInputs, k \in CoordinateType :
              LET c == [coordinate_type |-> k, local_coords |-> v]
              IN  /\ Hom(ret.value, c)[3] =
                        (IF k = POINT THEN 1 ELSE 0) * HomDen(ret.value, c)
                  /\ transform_coordinate(ret.value, v, k) =
                        IF k = POINT THEN Affine(ret.value, v) ELSE Linear(ret.value, v)

\* the matrix from a sheared system to a system that is translated, rotated
\* and scaled: inv(trs2D(3, 2, pi/2, 2, 2)) @ shear2D(1, 2), with halves in it
C13_Witness ==
    /\ ret.op = "compute_convert_transform" /\ ret.ok
    /\ systems[ret.self].transform = shear2D(1, 2)
    /\ systems[ret.target].transform = trs2D(3, 2, 1, 2, 2)
    /\ systems[ret.target].parent = NoSystem
    /\ ret.value.d = 2
    /\ ret.value.n[3] = << 0, 0, 2 >>

(***************************************************************************)
(* C14: a system's transform maps its local coordinates to its parent's.   *)
(* A coordinate in a system F with parent P, converted with to_system(P),  *)
(* has the local_coords transform_coordinate(F.transform, local_coords,    *)
(* kind): the matrix of F alone applied to it, whatever the transform of P *)
(* and the transforms of the ancestors of P are (the conversion succeeds   *)
(* when the global matrix of P is invertible).                             *)
(***************************************************************************)
ToParent == {c \in Converted : history[c].target = systems[SrcSystem(c)].parent}

C14_TransformMapsToParent ==
    \A c \in ToParent :
        /\ Invertible(Global(history[c].target))
        /\ Transformed(systems[SrcSystem(c)].transform, c)
        /\ coordinates[c].local_coords =
              transform_coordinate(systems[SrcSystem(c)].transform,
                                   Src(c).local_coords, Src(c).coordinate_type)

\* Point([1, 2]) in translate2D(5, 0), whose parent scales by 2 and has a
\* translated parent itself, is [6, 2] in the parent
C14_Witness ==
    \E c \in ToParent :
        LET F == systems[SrcSystem(c)]
            P == systems[F.parent]
        IN  /\ Src(c).coordinate_type = POINT
            /\ F.transform = translate2D(5, 0)
            /\ P.transform = scale2D(2, 2)
            /\ P.parent # NoSystem
            /\ systems[P.parent].transform = translate2D(0, 3)
            /\ coordinates[c].local_coords = Vec(<< 6, 2 >>, 1)

(***************************************************************************)
(* C15: system_factory(parent, tx, ty, angle_rad, sx, sy) returns the      *)
(* system System(transform = trs2D(tx, ty, angle_rad, sx, sy), parent =    *)
(* parent): its parent is the parent given, its transform is the product   *)
(* translate2D * rotate2D * scale2D of the arguments; with the defaults    *)
(* tx = ty = 0, angle_rad = 0, sx = sy = 1 the transform is the identity,  *)
(* as that of System() called with no transform.                           *)
(***************************************************************************)
\* T * (R * S) written out entry by entry
TRS(a) ==
    LET c == cos(a[3])
        s == sin(a[3])
    IN  Mat(<< << c * a[4], -s * a[5], a[1] >>,
               << s * a[4], c * a[5], a[2] >>,
               << 0, 0, 1 >> >>, 1)

FactoryDefaults == << 0, 0, 0, 1, 1 >>

C15_SystemFactory ==
    ret.op = "system_factory" =>
        LET s == systems[ret.value]
        IN  /\ ret.value = Len(systems)
            /\ s.parent = ret.target
            /\ s.transform = TRS(ret.self)
            /\ s = System(trs2D(ret.self[1], ret.self[2], ret.self[3],
                                ret.self[4], ret.self[5]), ret.target)
            /\ ret.self = FactoryDefaults =>
                  /\ s.transform = eye3
                  /\ s = System(NoTransform, ret.target)

\* system_factory(s1, 5, 3, -pi/2, 2, 3) returned a child of s1 whose transform
\* is not that of s1; and system_factory(s1) with the defaults an identity child
C15_Witness ==
    /\ ret.op = "system_factory"
    /\ ret.self = << 5, 3, -1, 2, 3 >>
    /\ ret.target = 1
    /\ ret.value = 2
    /\ systems[1].transform = shear2D(1, 2)
    /\ systems[2].transform.n = << << 0, 3, 5 >>, << -2, 0, 3 >>, << 0, 0, 1 >> >>

C15_WitnessDefaults ==
    /\ ret.op = "system_factory"
    /\ ret.self = FactoryDefaults
    /\ ret.target = 1
    /\ systems[1].transform = trs2D(3, 2, 1, 2, 2)
    /\ systems[2] = [transform |-> eye3, parent |-> 1]

(***************************************************************************)
(* C16: trs2D(tx, ty, angle_rad, sx, sy) is the matrix product             *)
(* translate2D(tx, ty) * rotate2D(angle_rad) * scale2D(sx, sy): applied to *)
(* a point it scales first, then rotates, then translates, so that         *)
(* trs2D(3, 2, pi/2, 2, 2) maps (1, 0) to (3, 4); when only one of the     *)
(* three components is not the identity, it is that builder's matrix.      *)
(***************************************************************************)
C16_TrsIsTranslateRotateScale ==
    ret.op = "trs2D" =>
        LET a == ret.self
            T == translate2D(a[1], a[2])
            R == rotate2D(a[3])
            S == scale2D(a[4], a[5])
        IN  /\ ret.value = MatMul(T, MatMul(R, S))
            /\ ret.value = TRS(a)
            /\ \A v \in ArrayInputs \cup {Vec(<< 1, 0 >>, 1)} :
                  transform_coordinate(ret.value, v, POINT) =
                     Affine(T, Affine(R, Affine(S, v)))
            /\ a = << 3, 2, 1, 2, 2 >> =>
                  transform_coordinate(ret.value, Vec(<< 1, 0 >>, 1), POINT) =
                     Vec(<< 3, 4 >>, 1)
            /\ (R = eye3 /\ S = eye3) => ret.value = T
            /\ (T = eye3 /\ S = eye3) => ret.value = R
            /\ (T = eye3 /\ R = eye3) => ret.value = S

\* trs2D(3, 2, pi/2, 2, 2), in which no component is the identity and the
\* order of the factors shows
C16_Witness ==
    /\ ret.op = "trs2D"
    /\ ret.self = << 3, 2, 1, 2, 2 >>
    /\ ret.value.n = << << 0, -2, 3 >>, << 2, 0, 2 >>, << 0, 0, 1 >> >>

\* trs2D(0, 0, 0, 2, 3), which is scale2D(2, 3)
C16_WitnessScaleOnly ==
    /\ ret.op = "trs2D"
    /\ ret.self = << 0, 0, 0, 2, 3 >>
    /\ ret.value = scale2D(2, 3)

(***************************************************************************)
(* C17: rotate2D turns counter-clockwise for a positive angle.             *)
(* rotate2D(pi/2) maps the point (1, 0) to (0, 1); rotate2D(k * pi/2) is   *)
(* the k-fold product of the quarter turn [[0,-1,0],[1,0,0],[0,0,1]] (of   *)
(* its inverse for a negative k), so that four quarter turns are the       *)
(* identity and rotate2D(-pi/2) is the inverse quarter turn, which is      *)
(* rotate2D(3 * pi/2).                                                     *)
(***************************************************************************)
QuarterTurn == Mat(<< << 0, -1, 0 >>, << 1, 0, 0 >>, << 0, 0, 1 >> >>, 1)

\* the k-fold product of the quarter turn, of its inverse when k < 0
RECURSIVE QuarterTurns(_)
QuarterTurns(k) ==
    IF k = 0 THEN eye3
    ELSE IF k > 0 THEN MatMul(QuarterTurn, QuarterTurns(k - 1))
    ELSE MatMul(inv(QuarterTurn).value, QuarterTurns(k + 1))

C17_RotateCounterClockwise ==
    ret.op = "rotate2D" =>
        LET k == ret.self[1]
        IN  /\ ret.value = QuarterTurns(k)
            /\ k = 1 => /\ ret.value = QuarterTurn
                        /\ transform_coordinate(ret.value, Vec(<< 1, 0 >>, 1), POINT) =
                              Vec(<< 0, 1 >>, 1)
            /\ k = 4 => ret.value = eye3
            /\ k = -1 => /\ MatMul(ret.value, QuarterTurn) = eye3
                         /\ MatMul(QuarterTurn, ret.value) = eye3
                         /\ ret.value = rotate2D(3)

\* rotate2D(-pi/2), the clockwise quarter turn
C17_Witness ==
    /\ ret.op = "rotate2D"
    /\ ret.self = << -1 >>
    /\ ret.value.n = << << 0, 1, 0 >>, << -1, 0, 0 >>, << 0, 0, 1 >> >>

\* rotate2D(2 * pi), four quarter turns
C17_WitnessFullTurn ==
    /\ ret.op = "rotate2D"
    /\ ret.self = << 4 >>
    /\ ret.value = eye3

(***************************************************************************)
(* C18, as claimed: an InvalidDimensionError is raised for a local_coords  *)
(* that has not exactly 2 components and for a transform that is not 3x3,  *)
(* so that no such Coordinate and no such System exists, every error a     *)
(* conversion raises for a shape is that error, and every conversion       *)
(* returns 2 components.                                                   *)
(***************************************************************************)
C18_Original ==
    /\ \A c \in CoordinateIds : Len(coordinates[c].local_coords.n) = 2
    /\ \A f \in SystemIds : Is3x3(systems[f].transform)
    /\ (ret.op = "to_global" /\ ~ret.ok) => ret.error = "InvalidDimensionError"
    /\ \A c \in Globals : Len(coordinates[c].local_coords.n) = 2

\* what the constructors and to_global do with the shapes: a conversion that
\* returns, returns 2 components, also from a 3-component source
C18_ConversionsReturnPairs ==
    \A c \in Globals : Len(coordinates[c].local_coords.n) = 2

\* a Coordinate of 3 components in a system of a 3x4 array was converted
C18_ShapesReached ==
    \E c \in Globals :
        /\ Len(Src(c).local_coords.n) = 3
        /\ ~Is3x3(systems[SrcSystem(c)].transform)

(***************************************************************************)
(* C19, as claimed: when the parent links of a system form a cycle,        *)
(* global_transform() is rejected with a CyclicFrameError, raised when the *)
(* traversal comes back to a system or exceeds a depth bound.              *)
(***************************************************************************)
\* the system reached from f by n parent links, NoSystem when the chain ends
RECURSIVE Ancestor(_, _)
Ancestor(f, n) ==
    IF f = NoSystem \/ n = 0 THEN f ELSE Ancestor(systems[f].parent, n - 1)

\* the parent chain of f never ends
Cyclic(f) == Ancestor(f, Len(systems)) # NoSystem

C19_Original ==
    (ret.op = "global_transform" /\ Cyclic(ret.self)) =>
        ~ret.ok /\ ret.error = "CyclicFrameError"

\* what the code does: on a cycle the call fails, with the interpreter's
\* RecursionError; on a chain that ends it returns the product of the chain
C19_RecursionError ==
    ret.op = "global_transform" =>
        /\ Cyclic(ret.self) => ~ret.ok /\ ret.error = "RecursionError"
        /\ ~Cyclic(ret.self) => ret.ok /\ ret.value = Global(ret.self)

\* global_transform() was called on a system that is its own grandparent
C19_CycleReached ==
    /\ ret.op = "global_transform"
    /\ systems[ret.self].parent \notin {NoSystem, ret.self}
    /\ systems[systems[ret.self].parent].parent = ret.self
    /\ ~ret.ok

(***************************************************************************)
(* C20: in a tree built by the constructors alone (the parent of a new     *)
(* system is None or a system that exists, and is never assigned again)    *)
(* the parent chain of every system has no cycle and ends at a system with *)
(* no parent, and global_transform() returns after one call for each       *)
(* system of the chain: depth + 1 calls.                                   *)
(***************************************************************************)
\* the number of parent links from f to the root of its chain
Depth(f) ==
    CHOOSE n \in 0..Len(systems) :
        Ancestor(f, n) # NoSystem /\ Ancestor(f, n + 1) = NoSystem

C20_ChainEndsAndTerminates ==
    /\ \A f \in SystemIds : systems[f].parent \in {NoSystem} \cup 1..(f - 1)
    /\ \A f \in SystemIds :
          /\ ~Cyclic(f)
          /\ systems[Ancestor(f, Depth(f))].parent = NoSystem
          /\ \A i, j \in 0..Depth(f) : i # j => Ancestor(f, i) # Ancestor(f, j)
          /\ global_transform_calls(f) = Depth(f) + 1
    /\ ret.op = "global_transform" =>
          /\ ret.ok
          /\ Len(Chain(ret.self)) = global_transform_calls(ret.self)

\* global_transform() returned for a system with a parent and a grandparent,
\* after 3 calls
C20_Witness ==
    /\ ret.op = "global_transform"
    /\ ret.ok
    /\ Depth(ret.self) = 2
    /\ global_transform_calls(ret.self) = 3
    /\ ret.value = Global(ret.self)

(***************************************************************************)
(* C21: differences of Points transform as Vectors.  For two Points P1 and *)
(* P2 in one system F whose conversion to a system T succeeds, in a tree   *)
(* of affine transforms, the local_coords of P1.to_system(T) minus those   *)
(* of P2.to_system(T) are the local_coords of the Vector P1 - P2 of F      *)
(* converted with to_system(T); and likewise for to_global().  P1 is a     *)
(* Point that was converted; P2 ranges over the arrays of ArrayInputs, and *)
(* its conversion and that of the Vector are computed as to_system and     *)
(* to_global compute them.                                                 *)
(***************************************************************************)
\* a - b for two 2-element arrays
Sub(a, b) ==
    Vec(<< a.n[1] * b.d - b.n[1] * a.d, a.n[2] * b.d - b.n[2] * a.d >>, a.d * b.d)

DifferenceIsVector(M, c) ==
    \A p2 \in ArrayInputs :
        Sub(coordinates[c].local_coords, transform_coordinate(M, p2, POINT)) =
           transform_coordinate(M, Sub(Src(c).local_coords, p2), VECTOR)

C21_PointDifferenceIsVector ==
    /\ \A f \in SystemIds : IsAffine(systems[f].transform)
    /\ \A c \in Converted :
          Src(c).coordinate_type = POINT =>
             DifferenceIsVector(
                 compute_convert_transform(SrcSystem(c), history[c].target).value, c)
    /\ \A c \in Globals :
          Src(c).coordinate_type = POINT =>
             DifferenceIsVector(global_transform(SrcSystem(c)), c)

\* Point([1, 2]) of translate2D(5, 0) converted to a system that scales by 2
\* under translate2D(0, 3): [3, -1/2]; the difference to the image
\* [5/2, -3/2] of the origin is [1/2, 1], half the Vector [1, 2] - [0, 0]
C21_Witness ==
    \E c \in Converted :
        LET T == systems[history[c].target]
        IN  /\ Src(c).coordinate_type = POINT
            /\ systems[SrcSystem(c)].transform = translate2D(5, 0)
            /\ systems[SrcSystem(c)].parent = NoSystem
            /\ T.transform = scale2D(2, 2)
            /\ T.parent # NoSystem
            /\ systems[T.parent].transform = translate2D(0, 3)
            /\ coordinates[c].local_coords = Vec(<< 6, -1 >>, 2)
            /\ Sub(coordinates[c].local_coords,
                   transform_coordinate(ConvertMatrix(c), Vec(<< 0, 0 >>, 1), POINT)) =
                  Vec(<< 1, 2 >>, 2)

(***************************************************************************)
(* C22: path independence.  For a coordinate C of a system A and systems B *)
(* and D whose conversions succeed, in a tree of affine transforms,        *)
(* C.to_system(B).to_system(D) has the local_coords, the kind and the      *)
(* system of C.to_system(D): going through B changes nothing.              *)
(***************************************************************************)
\* the coordinates that came from two to_system calls in a row
TwiceConverted == {c \in Converted : history[c].src \in Converted}

C22_PathIndependence ==
    \A c \in TwiceConverted :
        LET b == history[c].src
            a == history[b].src
            direct == to_system(a, history[c].target)
        IN  /\ direct.ok
            /\ coordinates[c].local_coords = direct.args.local_coords
            /\ coordinates[c].coordinate_type = direct.args.coordinate_type
            /\ coordinates[c].system = direct.args.system
            /\ coordinates[c].system = history[c].target

\* three different systems: Point([1, 2]) of translate2D(5, 0) went through a
\* system that scales by 2 to translate2D(0, 3) and is [6, -1] there
C22_Witness ==
    \E c \in TwiceConverted :
        LET b == history[c].src
            a == history[b].src
        IN  /\ coordinates[a].coordinate_type = POINT
            /\ systems[coordinates[a].system].transform = translate2D(5, 0)
            /\ systems[coordinates[b].system].transform = scale2D(2, 2)
            /\ systems[coordinates[c].system].transform = translate2D(0, 3)
            /\ coordinates[b].local_coords = Vec(<< 3, 1 >>, 1)
            /\ coordinates[c].local_coords = Vec(<< 6, -1 >>, 1)

(***************************************************************************)
(* C23: only the target's invertibility matters.  to_global() inverts no   *)
(* matrix and returns for every coordinate, also when systems of its chain *)
(* are singular; to_system(target) returns whenever the global matrix of   *)
(* the target is invertible, also when that of the source's system is      *)
(* singular; a conversion fails if and only if the global matrix of the    *)
(* target is singular.                                                     *)
(***************************************************************************)
C23_OnlyTargetInvertibility ==
    /\ \A c \in CoordinateIds : to_global(c).ok
    /\ \A c \in CoordinateIds, t \in SystemIds :
          to_system(c, t).ok <=> Invertible(Global(t))
    /\ \A c \in Converted : Invertible(Global(history[c].target))
    /\ ret.op = "to_system" =>
          /\ ~ret.ok
          /\ ~Invertible(Global(ret.target))
    /\ ret.op # "to_global"

\* a coordinate of a system whose global matrix is singular was converted to
\* a system whose global matrix is invertible, and to_global() returned for it
C23_Witness ==
    \E c \in Converted, g \in Globals :
        /\ history[g].src = history[c].src
        /\ ~Invertible(Global(SrcSystem(c)))
        /\ Invertible(Global(history[c].target))
        /\ systems[history[c].target].transform # eye3

\* to_system failed for a target with a singular global matrix although the
\* source's is invertible
C23_WitnessFails ==
    /\ ret.op = "to_system" /\ ~ret.ok
    /\ Invertible(Global(coordinates[ret.self].system))
    /\ ~Invertible(Global(ret.target))
    /\ systems[ret.target].transform # scale2D(0, 0)

(***************************************************************************)
(* C24: to_global() returns a coordinate in a new parentless identity      *)
(* system, such as a Coordinate constructed with no system gets, and not   *)
(* in the root system of the source's tree.  So to_global() is idempotent: *)
(* C.to_global().to_global() has the local_coords of C.to_global(); and    *)
(* C.to_global() has the local_coords of C.to_system(r) for a parentless   *)
(* identity system r.                                                      *)
(***************************************************************************)
IdentityRoot == System(NoTransform, NoSystem)

C24_ToGlobalInFreshIdentitySystem ==
    /\ \A c \in CoordinateIds :
          (history[c].op = "Coordinate" /\ history[c].target = NoSystem) =>
             systems[coordinates[c].system] = IdentityRoot
    /\ \A g \in Globals :
          /\ systems[coordinates[g].system] = IdentityRoot
          /\ \A c \in 1..(g - 1) : coordinates[c].system # coordinates[g].system
          /\ \A i \in 1..Len(Chain(SrcSystem(g))) :
                Chain(SrcSystem(g))[i] # coordinates[g].system
          /\ history[g].src \in Globals =>
                coordinates[g].local_coords = Src(g).local_coords
          /\ \A r \in SystemIds :
                systems[r] = IdentityRoot =>
                   /\ to_system(history[g].src, r).ok
                   /\ to_system(history[g].src, r).args.local_coords =
                         coordinates[g].local_coords
          /\ \A c \in Converted :
                (history[c].src = history[g].src
                 /\ systems[history[c].target] = IdentityRoot) =>
                   coordinates[c].local_coords = coordinates[g].local_coords

\* to_global() twice on Point([1, 2]) of the parentless system
\* translate2D(5, 0): [6, 2] both times, in two different new systems (in the
\* root of the source's tree the second call would give [11, 2])
C24_Witness ==
    \E g \in Globals :
        LET h == history[g].src
        IN  /\ h \in Globals
            /\ systems[SrcSystem(h)].transform = translate2D(5, 0)
            /\ systems[SrcSystem(h)].parent = NoSystem
            /\ Src(h).coordinate_type = POINT
            /\ coordinates[h].local_coords = Vec(<< 6, 2 >>, 1)
            /\ coordinates[g].local_coords = Vec(<< 6, 2 >>, 1)
            /\ coordinates[g].system # coordinates[h].system
            /\ coordinates[h].system # SrcSystem(h)

\* to_global() and to_system(r) of one coordinate, r being the identity
\* system of the coordinate that to_global() returned
C24_WitnessToSystem ==
    \E g \in Globals, c \in Converted :
        /\ history[c].src = history[g].src
        /\ history[c].target = coordinates[g].system
        /\ coordinates[c].local_coords = coordinates[g].local_coords
        /\ coordinates[c].local_coords # Src(c).local_coords

====
